---- MODULE Spec2Model ----
(***************************************************************************)
(* Climate platform of the Advantage Air integration                       *)
(* (homeassistant/components/advantage_air/climate.py).                    *)
(*                                                                         *)
(* The coordinator data is a JSON document: dictionaries are functions     *)
(* with a finite domain of strings, every JSON scalar is a string, and     *)
(* Python's None is the string "None".  The zone "type" flag is a number.  *)
(***************************************************************************)
EXTENDS Integers, Sequences, FiniteSets, TLC

VARIABLES
    data,          \* coordinator.data, the last device state fetched
    entities,      \* the list handed to async_add_entities
    add_calls,     \* number of async_add_entities calls made so far
    last,          \* the command method that completed last, with the
                   \* aircon() calls it made and the data it started from
    observed,      \* the last property read: entity, property, value
    steps          \* number of commands, reads and device changes so far

vars == <<data, entities, add_calls, last, observed, steps>>

-----------------------------------------------------------------------------
(* Bounds *)

\* commands, property reads and device-side changes in one behaviour
MaxSteps == 2

-----------------------------------------------------------------------------
(* Vocabulary *)

None == "None"

ADVANTAGE_AIR_STATE_ON == "on"
ADVANTAGE_AIR_STATE_OFF == "off"
ADVANTAGE_AIR_STATE_OPEN == "open"
ADVANTAGE_AIR_STATE_CLOSE == "close"

HVACMode_OFF == "off"
HVACMode_HEAT == "heat"
HVACMode_COOL == "cool"
HVACMode_HEAT_COOL == "heat_cool"
HVACMode_AUTO == "auto"
HVACMode_DRY == "dry"
HVACMode_FAN_ONLY == "fan_only"

HVACMode == {HVACMode_OFF, HVACMode_HEAT, HVACMode_COOL, HVACMode_HEAT_COOL,
             HVACMode_AUTO, HVACMode_DRY, HVACMode_FAN_ONLY}

FAN_AUTO == "auto"
FAN_LOW == "low"
FAN_MEDIUM == "medium"
FAN_HIGH == "high"

ATTR_TEMPERATURE == "temperature"

-----------------------------------------------------------------------------
(* Python dictionaries *)

\* dict.get(key): the value, or None when the key is absent
Get(d, k) == IF k \in DOMAIN d THEN d[k] ELSE None

\* A dict display or comprehension, given as its <<key, value>> pairs in
\* order: a key that occurs again overwrites its earlier value.
Dict(items) ==
    [k \in {items[i][1] : i \in DOMAIN items} |->
        LET hits == {i \in DOMAIN items : items[i][1] = k}
            lastHit == CHOOSE i \in hits : \A j \in hits : j <= i
        IN  items[lastHit][2]]

\* {v: k for k, v in items}
Inverted(items) == Dict([i \in DOMAIN items |-> <<items[i][2], items[i][1]>>])

SeqToSet(s) == {s[i] : i \in DOMAIN s}

-----------------------------------------------------------------------------
(* Mapping tables *)

\* "auto" accepted next to "myauto"
HvacModeItemsDuplicated ==
    << <<"heat", HVACMode_HEAT>>,
       <<"cool", HVACMode_COOL>>,
       <<"vent", HVACMode_FAN_ONLY>>,
       <<"dry", HVACMode_DRY>>,
       <<"myauto", HVACMode_AUTO>>,
       <<"auto", HVACMode_AUTO>> >>

\* the automatic mode keyed by the platform's name for it
HvacModeItemsAuto ==
    << <<"heat", HVACMode_HEAT>>,
       <<"cool", HVACMode_COOL>>,
       <<"vent", HVACMode_FAN_ONLY>>,
       <<"dry", HVACMode_DRY>>,
       <<"auto", HVACMode_AUTO>> >>

\* climate.py, lines 30-36
HvacModeItems ==
    << <<"heat", HVACMode_HEAT>>,
       <<"cool", HVACMode_COOL>>,
       <<"vent", HVACMode_FAN_ONLY>>,
       <<"dry", HVACMode_DRY>>,
       <<"myauto", HVACMode_AUTO>> >>

ADVANTAGE_AIR_HVAC_MODES == Dict(HvacModeItems)

HASS_HVAC_MODES == Inverted(HvacModeItems)

AC_HVAC_MODES ==
    <<HVACMode_OFF, HVACMode_COOL, HVACMode_HEAT, HVACMode_FAN_ONLY,
      HVACMode_DRY>>

FanModeItems ==
    << <<"autoAA", FAN_AUTO>>,
       <<"low", FAN_LOW>>,
       <<"medium", FAN_MEDIUM>>,
       <<"high", FAN_HIGH>> >>

ADVANTAGE_AIR_FAN_MODES == Dict(FanModeItems)

HASS_FAN_MODES == Inverted(FanModeItems)

ZONE_HVAC_MODES == <<HVACMode_OFF, HVACMode_HEAT_COOL>>

-----------------------------------------------------------------------------
(* Coordinator data *)

AcKeys == {"ac1", "ac2"}

\* the zones of each aircon: "z01" exists under both
ZoneKeysOf(ac_key) == IF ac_key = "ac1" THEN {"z01", "z02"} ELSE {"z01"}

\* mode strings the device reports: the keys of the mode table and "auto",
\* the data model's name for the automatic mode, which is not a key
DeviceModes == {"heat", "cool", "vent", "dry", "myauto", "auto"}

DeviceStates == {ADVANTAGE_AIR_STATE_ON, ADVANTAGE_AIR_STATE_OFF}

ZoneTypes == {0, 1}

InitialInfo(ac_key, myAuto) ==
    [state |-> IF ac_key = "ac1" THEN ADVANTAGE_AIR_STATE_ON
               ELSE ADVANTAGE_AIR_STATE_OFF,
     mode |-> IF ac_key = "ac1" THEN "cool" ELSE "heat",
     fan |-> "low",
     setTemp |-> "24",
     myAutoModeEnabled |-> myAuto]

InitialZone(zone_key, type) ==
    [name |-> zone_key,
     state |-> IF zone_key = "z01" THEN ADVANTAGE_AIR_STATE_OPEN
               ELSE ADVANTAGE_AIR_STATE_CLOSE,
     type |-> type,
     measuredTemp |-> "22",
     setTemp |-> "24"]

\* the "aircons" dictionaries a first refresh may have fetched
AirconsSnapshots ==
    UNION {
        {[k \in keys |->
            [info |-> InitialInfo(k, myAuto[k]),
             zones |-> [z \in ZoneKeysOf(k) |-> InitialZone(z, types[k][z])]]] :
          myAuto \in [keys -> BOOLEAN],
          types \in {t \in [keys -> UNION {[ZoneKeysOf(k) -> ZoneTypes] : k \in keys}] :
                        \A k \in keys : DOMAIN t[k] = ZoneKeysOf(k)}} :
        keys \in SUBSET AcKeys}

System == [rid |-> "rid0"]

\* coordinator.data with or without an "aircons" entry
DataSnapshots ==
    {[system |-> System]} \cup
    {[system |-> System, aircons |-> a] : a \in AirconsSnapshots}

-----------------------------------------------------------------------------
(* Entity base classes *)

\* AdvantageAirAcEntity._ac
AdvantageAirAcEntity_ac(self) == data.aircons[self.ac_key].info

\* AdvantageAirZoneEntity._zone
AdvantageAirZoneEntity_zone(self) ==
    data.aircons[self.ac_key].zones[self.zone_key]

-----------------------------------------------------------------------------
(* Construction *)

\* AdvantageAirAC.__init__, reading the snapshot d
AdvantageAirAC_init(d, ac_key) ==
    [cls |-> "AdvantageAirAC",
     ac_key |-> ac_key,
     zone_key |-> None,
     name |-> ac_key,
     unique_id |-> <<d.system.rid, ac_key>>,
     hvac_modes |-> IF d.aircons[ac_key].info.myAutoModeEnabled
                    THEN AC_HVAC_MODES \o <<HVACMode_AUTO>>
                    ELSE AC_HVAC_MODES]

\* AdvantageAirZone.__init__, reading the snapshot d
AdvantageAirZone_init(d, ac_key, zone_key) ==
    [cls |-> "AdvantageAirZone",
     ac_key |-> ac_key,
     zone_key |-> zone_key,
     name |-> d.aircons[ac_key].zones[zone_key].name,
     unique_id |-> <<d.system.rid, ac_key, zone_key>>,
     hvac_modes |-> ZONE_HVAC_MODES]

\* the orders in which a dictionary with key set S may be iterated
Orderings(S) ==
    {s \in [1..Cardinality(S) -> S] : \A i, j \in DOMAIN s : i # j => s[i] # s[j]}

\* the zone type test dropped
RECURSIVE ZoneLoopUnfiltered(_, _, _)
ZoneLoopUnfiltered(d, ac_key, zorder) ==
    IF zorder = <<>> THEN <<>>
    ELSE <<AdvantageAirZone_init(d, ac_key, Head(zorder))>>
         \o ZoneLoopUnfiltered(d, ac_key, Tail(zorder))

\* the inner loop of async_setup_entry over ac_device["zones"].items()
RECURSIVE ZoneLoop(_, _, _)
ZoneLoop(d, ac_key, zorder) ==
    IF zorder = <<>> THEN <<>>
    ELSE (IF d.aircons[ac_key].zones[Head(zorder)].type # 0
          THEN <<AdvantageAirZone_init(d, ac_key, Head(zorder))>>
          ELSE <<>>)
         \o ZoneLoop(d, ac_key, Tail(zorder))

\* the AC entity appended only when the aircon has a controllable zone
RECURSIVE AirconLoopSkipping(_, _, _)
AirconLoopSkipping(d, acorder, zorders) ==
    IF acorder = <<>> THEN <<>>
    ELSE LET zs == ZoneLoop(d, Head(acorder), zorders[Head(acorder)])
         IN  (IF zs = <<>> THEN <<>>
              ELSE <<AdvantageAirAC_init(d, Head(acorder))>>)
             \o zs
             \o AirconLoopSkipping(d, Tail(acorder), zorders)

\* the outer loop of async_setup_entry over aircons.items()
RECURSIVE AirconLoop(_, _, _)
AirconLoop(d, acorder, zorders) ==
    IF acorder = <<>> THEN <<>>
    ELSE <<AdvantageAirAC_init(d, Head(acorder))>>
         \o ZoneLoop(d, Head(acorder), zorders[Head(acorder)])
         \o AirconLoop(d, Tail(acorder), zorders)

\* the truth value of coordinator.data.get("aircons")
HasAircons(d) == "aircons" \in DOMAIN d /\ DOMAIN d.aircons # {}

\* the iteration orders of the zone dictionaries of the aircons of d
ZoneOrders(d) ==
    {zo \in [DOMAIN d.aircons ->
                UNION {Orderings(DOMAIN d.aircons[k].zones) : k \in DOMAIN d.aircons}] :
        \A k \in DOMAIN d.aircons : zo[k] \in Orderings(DOMAIN d.aircons[k].zones)}

\* async_setup_entry: builds the list and calls async_add_entities once
async_setup_entry ==
    /\ add_calls = 0
    /\ \/ /\ HasAircons(data)
          /\ \E acorder \in Orderings(DOMAIN data.aircons), zorders \in ZoneOrders(data) :
                entities' = AirconLoop(data, acorder, zorders)
       \/ /\ ~HasAircons(data)
          /\ entities' = <<>>
    /\ add_calls' = add_calls + 1
    /\ UNCHANGED <<data, last, observed, steps>>

-----------------------------------------------------------------------------
(* Properties of AdvantageAirAC *)

AdvantageAirAC_target_temperature(self) == AdvantageAirAcEntity_ac(self).setTemp

\* the state test dropped: the stored mode is translated even when off
AdvantageAirAC_hvac_mode_ignoring_state(self) ==
    Get(ADVANTAGE_AIR_HVAC_MODES, AdvantageAirAcEntity_ac(self).mode)

AdvantageAirAC_hvac_mode(self) ==
    IF AdvantageAirAcEntity_ac(self).state = ADVANTAGE_AIR_STATE_ON
    THEN Get(ADVANTAGE_AIR_HVAC_MODES, AdvantageAirAcEntity_ac(self).mode)
    ELSE HVACMode_OFF

AdvantageAirAC_fan_mode(self) ==
    Get(ADVANTAGE_AIR_FAN_MODES, AdvantageAirAcEntity_ac(self).fan)

(* Properties of AdvantageAirZone *)

AdvantageAirZone_hvac_mode(self) ==
    IF AdvantageAirZoneEntity_zone(self).state = ADVANTAGE_AIR_STATE_OPEN
    THEN HVACMode_HEAT_COOL
    ELSE HVACMode_OFF

AdvantageAirZone_current_temperature(self) ==
    AdvantageAirZoneEntity_zone(self).measuredTemp

AdvantageAirZone_target_temperature(self) ==
    AdvantageAirZoneEntity_zone(self).setTemp

-----------------------------------------------------------------------------
(* Command methods: each is the sequence of aircon() payloads it sends *)

AdvantageAirAC_async_turn_on(self) ==
    << (self.ac_key :> [info |-> [state |-> ADVANTAGE_AIR_STATE_ON]]) >>

AdvantageAirAC_async_turn_off(self) ==
    << (self.ac_key :> [info |-> [state |-> ADVANTAGE_AIR_STATE_OFF]]) >>

\* the mode sent without the state
AdvantageAirAC_async_set_hvac_mode_without_state(self, hvac_mode) ==
    IF hvac_mode = HVACMode_OFF
    THEN << (self.ac_key :> [info |-> [state |-> ADVANTAGE_AIR_STATE_OFF]]) >>
    ELSE << (self.ac_key :>
                [info |-> [mode |-> Get(HASS_HVAC_MODES, hvac_mode)]]) >>

AdvantageAirAC_async_set_hvac_mode(self, hvac_mode) ==
    IF hvac_mode = HVACMode_OFF
    THEN << (self.ac_key :> [info |-> [state |-> ADVANTAGE_AIR_STATE_OFF]]) >>
    ELSE << (self.ac_key :>
                [info |-> [state |-> ADVANTAGE_AIR_STATE_ON,
                           mode |-> Get(HASS_HVAC_MODES, hvac_mode)]]) >>

AdvantageAirAC_async_set_fan_mode(self, fan_mode) ==
    << (self.ac_key :> [info |-> [fan |-> Get(HASS_FAN_MODES, fan_mode)]]) >>

AdvantageAirAC_async_set_temperature(self, kwargs) ==
    LET temp == Get(kwargs, ATTR_TEMPERATURE)
    IN  << (self.ac_key :> [info |-> [setTemp |-> temp]]) >>

AdvantageAirZone_async_turn_on(self) ==
    << (self.ac_key :>
          [zones |-> (self.zone_key :> [state |-> ADVANTAGE_AIR_STATE_OPEN])]) >>

AdvantageAirZone_async_turn_off(self) ==
    << (self.ac_key :>
          [zones |-> (self.zone_key :> [state |-> ADVANTAGE_AIR_STATE_CLOSE])]) >>

\* the zone closed and then opened to switch it on
AdvantageAirZone_async_set_hvac_mode_twice(self, hvac_mode) ==
    IF hvac_mode = HVACMode_OFF
    THEN AdvantageAirZone_async_turn_off(self)
    ELSE AdvantageAirZone_async_turn_off(self) \o AdvantageAirZone_async_turn_on(self)

\* open sent only for the advertised mode
AdvantageAirZone_async_set_hvac_mode_strict(self, hvac_mode) ==
    IF hvac_mode = HVACMode_HEAT_COOL
    THEN AdvantageAirZone_async_turn_on(self)
    ELSE AdvantageAirZone_async_turn_off(self)

AdvantageAirZone_async_set_hvac_mode(self, hvac_mode) ==
    IF hvac_mode = HVACMode_OFF
    THEN AdvantageAirZone_async_turn_off(self)
    ELSE AdvantageAirZone_async_turn_on(self)

\* the setpoint written to the aircon, as AdvantageAirAC writes it
AdvantageAirZone_async_set_temperature_to_info(self, kwargs) ==
    LET temp == Get(kwargs, ATTR_TEMPERATURE)
    IN  << (self.ac_key :> [info |-> [setTemp |-> temp]]) >>

AdvantageAirZone_async_set_temperature(self, kwargs) ==
    LET temp == Get(kwargs, ATTR_TEMPERATURE)
    IN  << (self.ac_key :> [zones |-> (self.zone_key :> [setTemp |-> temp])]) >>

-----------------------------------------------------------------------------
(* Inputs *)

ACs == {i \in DOMAIN entities : entities[i].cls = "AdvantageAirAC"}

Zones == {i \in DOMAIN entities : entities[i].cls = "AdvantageAirZone"}

\* fan modes a caller may pass: two of the advertised ones and one that is
\* unknown
FanModeInputs == {FAN_AUTO, FAN_HIGH, "turbo"}

\* keyword arguments of async_set_temperature, with and without a temperature
KwargsInputs ==
    {[k \in {} |-> None]} \cup {(ATTR_TEMPERATURE :> t) : t \in {"25"}}

-----------------------------------------------------------------------------
(* The device and the coordinator *)

\* no entity: the value of the history variables before anything has run
NoEntity ==
    [cls |-> None, ac_key |-> None, zone_key |-> None, name |-> None,
     unique_id |-> <<>>, hvac_modes |-> <<>>]

NoCall(d) ==
    [ent |-> NoEntity, op |-> None, arg |-> None, calls |-> <<>>, before |-> d]

NoRead == [ent |-> NoEntity, property |-> None, value |-> None]

MergeFields(old, new) ==
    [f \in DOMAIN old |-> IF f \in DOMAIN new THEN new[f] ELSE old[f]]

ApplyToAircon(ac, change) ==
    [info |-> IF "info" \in DOMAIN change
              THEN MergeFields(ac.info, change.info)
              ELSE ac.info,
     zones |-> IF "zones" \in DOMAIN change
               THEN [z \in DOMAIN ac.zones |->
                        IF z \in DOMAIN change.zones
                        THEN MergeFields(ac.zones[z], change.zones[z])
                        ELSE ac.zones[z]]
               ELSE ac.zones]

\* the device state after it has taken in the change an aircon() call carries
DeviceApply(d, change) ==
    [d EXCEPT !.aircons =
        [k \in DOMAIN @ |->
            IF k \in DOMAIN change THEN ApplyToAircon(@[k], change[k]) ELSE @[k]]]

\* the awaited aircon() calls of one command method, in order: the device
\* takes in each change and the coordinator refreshes
RECURSIVE aircon(_, _)
aircon(d, calls) ==
    IF calls = <<>> THEN d
    ELSE aircon(DeviceApply(d, Head(calls)), Tail(calls))

\* a command method of entity self runs to completion, making `calls`
Command(self, op, arg, calls) ==
    /\ steps < MaxSteps
    /\ data' = aircon(data, calls)
    /\ last' = [ent |-> self, op |-> op, arg |-> arg, calls |-> calls,
                before |-> data]
    /\ steps' = steps + 1
    /\ UNCHANGED <<entities, add_calls, observed>>

\* the aircon is switched at the device (wall panel, vendor app) and the
\* coordinator refreshes; changes made before the platform is set up are
\* part of the snapshot the behaviour starts from
DeviceSetsState ==
    /\ steps < MaxSteps
    /\ add_calls = 1
    /\ "aircons" \in DOMAIN data
    /\ \E k \in DOMAIN data.aircons, s \in DeviceStates :
          data' = [data EXCEPT !.aircons[k].info.state = s]
    /\ steps' = steps + 1
    /\ UNCHANGED <<entities, add_calls, last, observed>>

DeviceSetsMode ==
    /\ steps < MaxSteps
    /\ add_calls = 1
    /\ "aircons" \in DOMAIN data
    /\ \E k \in DOMAIN data.aircons, m \in DeviceModes :
          data' = [data EXCEPT !.aircons[k].info.mode = m]
    /\ steps' = steps + 1
    /\ UNCHANGED <<entities, add_calls, last, observed>>

-----
(* Actions *)

AC_turn_on ==
    \E i \in ACs :
        Command(entities[i], "async_turn_on", None,
                 AdvantageAirAC_async_turn_on(entities[i]))

AC_turn_off ==
    \E i \in ACs :
        Command(entities[i], "async_turn_off", None,
                 AdvantageAirAC_async_turn_off(entities[i]))

AC_set_hvac_mode ==
    \E i \in ACs, hvac_mode \in HVACMode :
        Command(entities[i], "async_set_hvac_mode", hvac_mode,
                 AdvantageAirAC_async_set_hvac_mode(entities[i], hvac_mode))

AC_set_fan_mode ==
    \E i \in ACs, fan_mode \in FanModeInputs :
        Command(entities[i], "async_set_fan_mode", fan_mode,
                 AdvantageAirAC_async_set_fan_mode(entities[i], fan_mode))

AC_set_temperature ==
    \E i \in ACs, kwargs \in KwargsInputs :
        Command(entities[i], "async_set_temperature",
                 Get(kwargs, ATTR_TEMPERATURE),
                 AdvantageAirAC_async_set_temperature(entities[i], kwargs))

Zone_turn_on ==
    \E i \in Zones :
        Command(entities[i], "async_turn_on", None,
                 AdvantageAirZone_async_turn_on(entities[i]))

Zone_turn_off ==
    \E i \in Zones :
        Command(entities[i], "async_turn_off", None,
                 AdvantageAirZone_async_turn_off(entities[i]))

Zone_set_hvac_mode ==
    \E i \in Zones, hvac_mode \in HVACMode :
        Command(entities[i], "async_set_hvac_mode", hvac_mode,
                 AdvantageAirZone_async_set_hvac_mode(entities[i], hvac_mode))

Zone_set_temperature ==
    \E i \in Zones, kwargs \in KwargsInputs :
        Command(entities[i], "async_set_temperature",
                 Get(kwargs, ATTR_TEMPERATURE),
                 AdvantageAirZone_async_set_temperature(entities[i], kwargs))

\* a property getter of entity self has returned value
Read(self, property, value) ==
    /\ steps < MaxSteps
    /\ observed' = [ent |-> self, property |-> property, value |-> value]
    /\ steps' = steps + 1
    /\ UNCHANGED <<data, entities, add_calls, last>>

AC_read_target_temperature ==
    \E i \in ACs :
        Read(entities[i], "target_temperature",
             AdvantageAirAC_target_temperature(entities[i]))

AC_read_hvac_mode ==
    \E i \in ACs :
        Read(entities[i], "hvac_mode", AdvantageAirAC_hvac_mode(entities[i]))

AC_read_fan_mode ==
    \E i \in ACs :
        Read(entities[i], "fan_mode", AdvantageAirAC_fan_mode(entities[i]))

Zone_read_hvac_mode ==
    \E i \in Zones :
        Read(entities[i], "hvac_mode", AdvantageAirZone_hvac_mode(entities[i]))

Zone_read_current_temperature ==
    \E i \in Zones :
        Read(entities[i], "current_temperature",
             AdvantageAirZone_current_temperature(entities[i]))

Zone_read_target_temperature ==
    \E i \in Zones :
        Read(entities[i], "target_temperature",
             AdvantageAirZone_target_temperature(entities[i]))

-----------------------------------------------------------------------------------------------------------------------------------------------------
(* Specifications *)

\* Platform setup: any snapshot of the first refresh, then async_setup_entry.
InitSetup ==
    /\ data \in DataSnapshots
    /\ entities = <<>>
    /\ add_calls = 0
    /\ last = NoCall(data)
    /\ observed = NoRead
    /\ steps = 0

NextSetup == async_setup_entry

SpecSetup == InitSetup /\ [][NextSetup]_vars

\* the snapshots the running system starts from: two aircons, the first
\* with two controllable zones, the second with a zone that is not
RunningSnapshots ==
    {d \in DataSnapshots :
        /\ "aircons" \in DOMAIN d
        /\ DOMAIN d.aircons = AcKeys
        /\ \A z \in ZoneKeysOf("ac1") : d.aircons["ac1"].zones[z].type = 1
        /\ \A z \in ZoneKeysOf("ac2") : d.aircons["ac2"].zones[z].type = 0
        /\ ~d.aircons["ac2"].info.myAutoModeEnabled}

\* The running system: the platform is set up, then commands, property
\* reads and device-side changes follow in any order.
Init ==
    /\ data \in RunningSnapshots
    /\ entities = <<>>
    /\ add_calls = 0
    /\ last = NoCall(data)
    /\ observed = NoRead
    /\ steps = 0

Next ==
    \/ async_setup_entry
    \/ AC_turn_on
    \/ AC_turn_off
    \/ AC_set_hvac_mode
    \/ AC_set_fan_mode
    \/ AC_set_temperature
    \/ Zone_turn_on
    \/ Zone_turn_off
    \/ Zone_set_hvac_mode
    \/ Zone_set_temperature
    \/ AC_read_target_temperature
    \/ AC_read_hvac_mode
    \/ AC_read_fan_mode
    \/ Zone_read_hvac_mode
    \/ Zone_read_current_temperature
    \/ Zone_read_target_temperature
    \/ DeviceSetsState
    \/ DeviceSetsMode

Spec == Init /\ [][Next]_vars

-----------------------------------------------------------------------------
(* Properties of async_setup_entry, checked under SpecSetup *)

\* the (ac_key, zone_key) pairs of the zones of d
ZonePairs(d) ==
    IF "aircons" \in DOMAIN d
    THEN UNION {{<<k, z>> : z \in DOMAIN d.aircons[k].zones} : k \in DOMAIN d.aircons}
    ELSE {}

\* those whose zone is in temperature control
ControllablePairs(d) ==
    {kz \in ZonePairs(d) : d.aircons[kz[1]].zones[kz[2]].type # 0}

\* C1: every AdvantageAirZone entity handed to async_add_entities is for a
\* zone of the snapshot whose type is not 0, and no zone of type 0 has a
\* zone entity.
C1_ZoneEntitiesOnlyForControllableZones ==
    /\ \A i \in Zones :
          <<entities[i].ac_key, entities[i].zone_key>> \in ControllablePairs(data)
    /\ \A kz \in ZonePairs(data) \ ControllablePairs(data) :
          ~\E i \in Zones :
              entities[i].ac_key = kz[1] /\ entities[i].zone_key = kz[2]

\* setup has run on a snapshot that mixes zones of type 0 and of another type
C1_Witness ==
    /\ add_calls = 1
    /\ Zones # {}
    /\ ZonePairs(data) \ ControllablePairs(data) # {}

\* C10: async_add_entities is called exactly once, with exactly one
\* AdvantageAirAC per aircon key and one AdvantageAirZone per zone of type
\* other than 0, each AC entity before the zone entities of its aircon; the
\* list is empty when "aircons" is missing or empty.
C10_SetupIsComplete ==
    /\ add_calls \in {0, 1}
    /\ add_calls = 0 => entities = <<>>
    /\ add_calls = 1 =>
          /\ ACs \cup Zones = DOMAIN entities
          /\ ~HasAircons(data) => entities = <<>>
          /\ HasAircons(data) =>
                /\ \A k \in DOMAIN data.aircons :
                      Cardinality({i \in ACs : entities[i].ac_key = k}) = 1
                /\ Cardinality(ACs) = Cardinality(DOMAIN data.aircons)
          /\ \A kz \in ControllablePairs(data) :
                Cardinality({i \in Zones : /\ entities[i].ac_key = kz[1]
                                           /\ entities[i].zone_key = kz[2]}) = 1
          /\ Cardinality(Zones) = Cardinality(ControllablePairs(data))
          /\ \A i \in Zones :
                \E j \in ACs : j < i /\ entities[j].ac_key = entities[i].ac_key

\* setup has added two AC entities and the zone entities of both aircons
C10_Witness ==
    /\ add_calls = 1
    /\ Cardinality(ACs) = 2
    /\ \A k \in AcKeys : \E i \in Zones : entities[i].ac_key = k

----------------------------------------------------------------------------
(* Properties of the entities, checked under Spec *)

Info(i) == data.aircons[entities[i].ac_key].info

Zone(i) == data.aircons[entities[i].ac_key].zones[entities[i].zone_key]

\* a command method completes in this step
CommandStep == last' # last

IsCommand(c, cls, op) == c.ent.cls = cls /\ c.op = op

\* C2: both mapping tables are bijections: translating a vendor string to
\* the platform and back, or a platform value to the vendor and back, gives
\* the value started from, for HVAC modes and for fan modes, and no entry is
\* lost by inverting; so a mode or fan mode a command has sent translates
\* back to the argument of the command.
C2_TablesRoundTrip ==
    /\ \A v \in DOMAIN ADVANTAGE_AIR_HVAC_MODES :
          Get(HASS_HVAC_MODES, ADVANTAGE_AIR_HVAC_MODES[v]) = v
    /\ \A h \in DOMAIN HASS_HVAC_MODES :
          Get(ADVANTAGE_AIR_HVAC_MODES, HASS_HVAC_MODES[h]) = h
    /\ \A v \in DOMAIN ADVANTAGE_AIR_FAN_MODES :
          Get(HASS_FAN_MODES, ADVANTAGE_AIR_FAN_MODES[v]) = v
    /\ \A h \in DOMAIN HASS_FAN_MODES :
          Get(ADVANTAGE_AIR_FAN_MODES, HASS_FAN_MODES[h]) = h
    /\ Cardinality(DOMAIN HASS_HVAC_MODES) = Len(HvacModeItems)
    /\ Cardinality(DOMAIN ADVANTAGE_AIR_HVAC_MODES) = Len(HvacModeItems)
    /\ Cardinality(DOMAIN HASS_FAN_MODES) = Len(FanModeItems)
    /\ Cardinality(DOMAIN ADVANTAGE_AIR_FAN_MODES) = Len(FanModeItems)
    /\ IsCommand(last, "AdvantageAirAC", "async_set_fan_mode") =>
          \A j \in DOMAIN last.calls :
              LET fan == last.calls[j][last.ent.ac_key].info.fan
              IN  fan # None => Get(ADVANTAGE_AIR_FAN_MODES, fan) = last.arg
    /\ (IsCommand(last, "AdvantageAirAC", "async_set_hvac_mode")
          /\ last.arg # HVACMode_OFF) =>
          \A j \in DOMAIN last.calls :
              LET mode == last.calls[j][last.ent.ac_key].info.mode
              IN  mode # None => Get(ADVANTAGE_AIR_HVAC_MODES, mode) = last.arg

\* AUTO has been sent as "myauto" and is read back as AUTO
C2_Witness ==
    /\ IsCommand(last, "AdvantageAirAC", "async_set_hvac_mode")
    /\ last.arg = HVACMode_AUTO
    /\ data.aircons[last.ent.ac_key].info.mode = "myauto"
    /\ \E i \in ACs : entities[i] = last.ent /\
          AdvantageAirAC_hvac_mode(entities[i]) = HVACMode_AUTO

\* the platform mode each vendor mode name stands for
ExpectedMode(v) ==
    CASE v = "heat" -> HVACMode_HEAT
      [] v = "cool" -> HVACMode_COOL
      [] v = "vent" -> HVACMode_FAN_ONLY
      [] v = "dry" -> HVACMode_DRY
      [] v \in {"auto", "myauto"} -> HVACMode_AUTO

\* C3 as stated: with the aircon on, each of heat, cool, vent, dry, auto is
\* translated to HEAT, COOL, FAN_ONLY, DRY, AUTO and never to None.
C3_AsStated ==
    \A i \in ACs :
        (Info(i).state = ADVANTAGE_AIR_STATE_ON
            /\ Info(i).mode \in {"heat", "cool", "vent", "dry", "auto"}) =>
        /\ AdvantageAirAC_hvac_mode(entities[i]) = ExpectedMode(Info(i).mode)
        /\ AdvantageAirAC_hvac_mode(entities[i]) # None

\* C3 amended: with the aircon on, each of heat, cool, vent, dry, myauto is
\* translated to HEAT, COOL, FAN_ONLY, DRY, AUTO and never to None.
C3_VendorModesTranslate ==
    \A i \in ACs :
        (Info(i).state = ADVANTAGE_AIR_STATE_ON
            /\ Info(i).mode \in {"heat", "cool", "vent", "dry", "myauto"}) =>
        /\ AdvantageAirAC_hvac_mode(entities[i]) = ExpectedMode(Info(i).mode)
        /\ AdvantageAirAC_hvac_mode(entities[i]) # None

\* an aircon that is on reports "myauto" and its entity reads AUTO
C3_Witness ==
    \E i \in ACs :
        /\ Info(i).state = ADVANTAGE_AIR_STATE_ON
        /\ Info(i).mode = "myauto"
        /\ AdvantageAirAC_hvac_mode(entities[i]) = HVACMode_AUTO

\* C4: every command method that completes has made exactly one aircon()
\* call, whatever its argument.
C4_OneCallPerCommand ==
    last.op # None => Len(last.calls) = 1

\* a zone's async_set_hvac_mode, which delegates, has completed with one call
C4_Witness ==
    /\ IsCommand(last, "AdvantageAirZone", "async_set_hvac_mode")
    /\ last.arg = HVACMode_HEAT_COOL
    /\ Len(last.calls) = 1

\* the change names only the aircon of the entity, under "info" for an AC
\* entity and under "zones" and the entity's zone key for a zone entity
OwnPayload(c) ==
    \A j \in DOMAIN c.calls :
        /\ DOMAIN c.calls[j] = {c.ent.ac_key}
        /\ c.ent.cls = "AdvantageAirAC" =>
              DOMAIN c.calls[j][c.ent.ac_key] = {"info"}
        /\ c.ent.cls = "AdvantageAirZone" =>
              /\ DOMAIN c.calls[j][c.ent.ac_key] = {"zones"}
              /\ DOMAIN c.calls[j][c.ent.ac_key].zones = {c.ent.zone_key}

\* what the command c leaves alone between the device states d and e
Frame(c, d, e) ==
    /\ DOMAIN e = DOMAIN d
    /\ e.system = d.system
    /\ DOMAIN e.aircons = DOMAIN d.aircons
    /\ \A k \in DOMAIN d.aircons \ {c.ent.ac_key} : e.aircons[k] = d.aircons[k]
    /\ c.ent.cls = "AdvantageAirAC" =>
          e.aircons[c.ent.ac_key].zones = d.aircons[c.ent.ac_key].zones
    /\ c.ent.cls = "AdvantageAirZone" =>
          /\ e.aircons[c.ent.ac_key].info = d.aircons[c.ent.ac_key].info
          /\ DOMAIN e.aircons[c.ent.ac_key].zones
                = DOMAIN d.aircons[c.ent.ac_key].zones
          /\ \A z \in DOMAIN d.aircons[c.ent.ac_key].zones \ {c.ent.zone_key} :
                e.aircons[c.ent.ac_key].zones[z]
                    = d.aircons[c.ent.ac_key].zones[z]

\* C5: reading a property and running async_setup_entry leave the device
\* state unchanged; the change a command sends names only the entity's own
\* aircon (and zone), and applying it leaves every other aircon, every other
\* zone and, for a zone command, the aircon's info unchanged.
C5_ReadsAndFrame ==
    [][/\ (observed' # observed \/ add_calls' # add_calls) => data' = data
       /\ CommandStep => (OwnPayload(last') /\ Frame(last', data, data'))]_vars

\* a zone command has changed the device state
C5_Witness ==
    /\ last.ent.cls = "AdvantageAirZone"
    /\ data # last.before
    /\ observed # NoRead

\* C6: hvac_mode of an AC entity is OFF whenever the aircon's state is not
\* on; when it is on and the stored mode is in the table, it is the table's
\* translation of the mode and not OFF.
C6_AcHvacMode ==
    \A i \in ACs :
        /\ Info(i).state # ADVANTAGE_AIR_STATE_ON =>
              AdvantageAirAC_hvac_mode(entities[i]) = HVACMode_OFF
        /\ (Info(i).state = ADVANTAGE_AIR_STATE_ON
              /\ Info(i).mode \in {"heat", "cool", "vent", "dry", "myauto"}) =>
              /\ AdvantageAirAC_hvac_mode(entities[i]) = ExpectedMode(Info(i).mode)
              /\ AdvantageAirAC_hvac_mode(entities[i]) # HVACMode_OFF

\* an aircon switched off at the device with "vent" stored reads OFF
C6_Witness ==
    \E i \in ACs :
        /\ Info(i).state = ADVANTAGE_AIR_STATE_OFF
        /\ Info(i).mode = "vent"
        /\ AdvantageAirAC_hvac_mode(entities[i]) = HVACMode_OFF

\* C7: when async_set_hvac_mode(m) of an AC entity completes for an
\* advertised m, hvac_mode is m; for OFF the one change is state off alone
\* and the stored mode stays; otherwise the change carries state on and a
\* vendor mode that is not None.
C7_AcSetThenGet ==
    [][(CommandStep
          /\ IsCommand(last', "AdvantageAirAC", "async_set_hvac_mode")
          /\ last'.arg \in SeqToSet(last'.ent.hvac_modes)) =>
       LET self == last'.ent
           m == last'.arg
       IN  /\ \A i \in ACs :
                 entities[i] = self => AdvantageAirAC_hvac_mode(entities[i])' = m
           /\ Len(last'.calls) = 1
           /\ m = HVACMode_OFF =>
                 /\ last'.calls[1] =
                       (self.ac_key :> [info |-> [state |-> ADVANTAGE_AIR_STATE_OFF]])
                 /\ data'.aircons[self.ac_key].info.mode
                       = data.aircons[self.ac_key].info.mode
           /\ m # HVACMode_OFF =>
                 /\ DOMAIN last'.calls[1][self.ac_key].info = {"state", "mode"}
                 /\ last'.calls[1][self.ac_key].info.state = ADVANTAGE_AIR_STATE_ON
                 /\ last'.calls[1][self.ac_key].info.mode # None]_vars

\* an aircon that was off has been set to the advertised AUTO and reads AUTO
C7_Witness ==
    /\ IsCommand(last, "AdvantageAirAC", "async_set_hvac_mode")
    /\ last.arg = HVACMode_AUTO
    /\ HVACMode_AUTO \in SeqToSet(last.ent.hvac_modes)
    /\ last.before.aircons[last.ent.ac_key].info.state = ADVANTAGE_AIR_STATE_OFF
    /\ AdvantageAirAC_hvac_mode(last.ent) = HVACMode_AUTO

\* C8: hvac_mode of a zone entity is HEAT_COOL exactly when the zone is open
\* and OFF otherwise; async_set_hvac_mode(OFF) sends state close and every
\* other mode sends state open, after which hvac_mode is OFF and HEAT_COOL;
\* the zone's setTemp stays.
C8_ZoneOpenClose ==
    [][/\ \A i \in Zones :
             /\ AdvantageAirZone_hvac_mode(entities[i]) = HVACMode_HEAT_COOL
                   <=> Zone(i).state = ADVANTAGE_AIR_STATE_OPEN
             /\ AdvantageAirZone_hvac_mode(entities[i]) # HVACMode_HEAT_COOL
                   => AdvantageAirZone_hvac_mode(entities[i]) = HVACMode_OFF
       /\ (CommandStep
             /\ IsCommand(last', "AdvantageAirZone", "async_set_hvac_mode")) =>
          LET self == last'.ent
          IN  /\ Len(last'.calls) = 1
              /\ last'.calls[1] =
                    (self.ac_key :>
                       [zones |-> (self.zone_key :>
                          [state |-> IF last'.arg = HVACMode_OFF
                                     THEN ADVANTAGE_AIR_STATE_CLOSE
                                     ELSE ADVANTAGE_AIR_STATE_OPEN])])
              /\ \A i \in Zones :
                    entities[i] = self =>
                        AdvantageAirZone_hvac_mode(entities[i])' =
                            (IF last'.arg = HVACMode_OFF THEN HVACMode_OFF
                             ELSE HVACMode_HEAT_COOL)
              /\ data'.aircons[self.ac_key].zones[self.zone_key].setTemp
                    = data.aircons[self.ac_key].zones[self.zone_key].setTemp]_vars

\* a closed zone has been set to HEAT, which is not OFF, and reads HEAT_COOL
C8_Witness ==
    /\ IsCommand(last, "AdvantageAirZone", "async_set_hvac_mode")
    /\ last.arg = HVACMode_HEAT
    /\ last.before.aircons[last.ent.ac_key].zones[last.ent.zone_key].state
          = ADVANTAGE_AIR_STATE_CLOSE
    /\ AdvantageAirZone_hvac_mode(last.ent) = HVACMode_HEAT_COOL

\* C9 as stated: while the stored mode is one of heat, cool, vent, dry,
\* myauto, the hvac_mode an AC entity reports is one of the hvac_modes it
\* advertises.
C9_ReportedModeIsAdvertised ==
    \A i \in ACs :
        Info(i).mode \in {"heat", "cool", "vent", "dry", "myauto"} =>
            AdvantageAirAC_hvac_mode(entities[i])
                \in SeqToSet(entities[i].hvac_modes)

====
